---- MODULE Spec2Model ----
(***************************************************************************)
(* State-machine model of companycam_mcp_server.py: the CompanyCam MCP     *)
(* server's API client core (credential check, transport, parameter        *)
(* models, projection, operation dispatch, error classifier).              *)
(*                                                                         *)
(* Representation of Python values                                         *)
(*   str   a sequence of chunks (TLA+ strings).  A literal of the source   *)
(*         is one chunk; data strings (ids, dates, free text, bodies) are  *)
(*         written one character per chunk, so that len(), slicing and     *)
(*         strip() act on them as they do in Python (a response field      *)
(*         that is only interpolated may be one chunk).  An f-string is    *)
(*         the concatenation of its pieces.                                *)
(*   None  for an Optional[str] parameter: the field is absent from the    *)
(*         validated record.                                               *)
(*   JSON  a tagged record, see JNull .. JObj.                             *)
(*   exception  a record [type, status, body, detail].                     *)
(***************************************************************************)
EXTENDS Integers, Sequences, FiniteSets, TLC

VARIABLES
    API_TOKEN,  \* the process-wide credential, read once at start-up
    tz,         \* the process's local UTC offset in minutes
    remote,     \* the remote service's state: notepad of each project
    calls,      \* one record per flow: the invocation it is running
    prev,       \* summary of the invocation that returned last
    fnIn,       \* input of the pure function under check
    fnOut       \* its output

vars == <<API_TOKEN, tz, remote, calls, prev, fnIn, fnOut>>

-----------------------------------------------------------------------------
(* Strings *)

Digit == <<"0", "1", "2", "3", "4", "5", "6", "7", "8", "9">>

Rep(c, n) == [i \in 1..n |-> c]

SetMin(S) == CHOOSE x \in S : \A y \in S : x <= y

\* str(n) for an int
RECURSIVE IntToStr(_)
IntToStr(n) ==
    IF n < 0 THEN <<"-">> \o IntToStr(-n)
    ELSE IF n < 10 THEN <<Digit[n + 1]>>
    ELSE IntToStr(n \div 10) \o <<Digit[(n % 10) + 1]>>

\* s[:n]
Slice(s, n) == SubSeq(s, 1, IF Len(s) < n THEN Len(s) ELSE n)

Whitespace == {" ", "\t", "\n", "\r"}

\* the first index at or after i (the last at or before i) that holds no
\* whitespace
RECURSIVE SkipRight(_, _)
SkipRight(s, i) ==
    IF i <= Len(s) /\ s[i] \in Whitespace THEN SkipRight(s, i + 1) ELSE i
RECURSIVE SkipLeft(_, _)
SkipLeft(s, i) == IF i >= 1 /\ s[i] \in Whitespace THEN SkipLeft(s, i - 1) ELSE i

\* str.strip(), as applied by str_strip_whitespace=True
Strip(s) == SubSeq(s, SkipRight(s, 1), SkipLeft(s, Len(s)))

\* sep.join(parts), parts a sequence of strings
RECURSIVE Join(_, _)
Join(sep, parts) ==
    IF Len(parts) = 0 THEN <<>>
    ELSE IF Len(parts) = 1 THEN parts[1]
    ELSE Join(sep, SubSeq(parts, 1, Len(parts) \div 2)) \o sep
           \o Join(sep, SubSeq(parts, Len(parts) \div 2 + 1, Len(parts)))

\* whether chunk c occurs in text t
HasChunk(t, c) == \E i \in 1..Len(t) : t[i] = c

EmptyDict == [k \in {} |-> <<>>]

-----------------------------------------------------------------------------
(* Exceptions and the classes they belong to *)

Exc(type, detail) == [type |-> type, status |-> 0, body |-> <<>>, detail |-> detail]

HTTPStatusError(status, body) ==
    [type |-> "HTTPStatusError", status |-> status, body |-> body,
     detail |-> <<"Client error '">> \o IntToStr(status) \o <<"' for url">>]

\* the classes an exception of a given type is an instance of
Bases(type) ==
    CASE type = "HTTPStatusError" -> {"HTTPStatusError", "HTTPError", "Exception"}
      [] type = "ReadTimeout" ->
            {"ReadTimeout", "TimeoutException", "TransportError", "RequestError",
             "HTTPError", "Exception"}
      [] type = "ConnectError" ->
            {"ConnectError", "NetworkError", "TransportError", "RequestError",
             "HTTPError", "Exception"}
      [] type = "JSONDecodeError" -> {"JSONDecodeError", "ValueError", "Exception"}
      [] type = "ValueError" -> {"ValueError", "Exception"}
      [] OTHER -> {type, "Exception"}

IsInstance(e, cls) == cls \in Bases(e.type)

Ok(v) == [ok |-> TRUE, val |-> v]
Raise(e) == [ok |-> FALSE, exc |-> e]

\* the rest of a computation F applied to the value of r, unless r raised
Then(r, F(_)) == IF r.ok THEN F(r.val) ELSE r

\* a local name v = ...; F(v)
Let(v, F(_)) == F(v)

-----------------------------------------------------------------------------
(* Error classifier *)

MsgAuthFailed == <<"Error: Authentication failed. Check your COMPANYCAM_API_TOKEN.">>
MsgPermission ==
    <<"Error: Permission denied. Ensure your account has API access (Pro+ plan, Admin role).">>
MsgNotFound == <<"Error: Resource not found. Check the ID is correct.">>
MsgRateLimit == <<"Error: Rate limit exceeded. Wait a moment and retry.">>
MsgTimeout == <<"Error: Request timed out. Try again.">>
MsgNoToken ==
    <<"COMPANYCAM_API_TOKEN environment variable is not set. Generate a token at app.companycam.com/access_tokens">>

\* a classifier that forgot the 404 branch
HandleApiErrorNo404(e) ==
    IF IsInstance(e, "HTTPStatusError")
    THEN CASE e.status = 401 -> MsgAuthFailed
           [] e.status = 403 -> MsgPermission
           [] e.status = 429 -> MsgRateLimit
           [] OTHER -> <<"Error: API returned ">> \o IntToStr(e.status)
                           \o <<". Response: ">> \o Slice(e.body, 500)
    ELSE IF IsInstance(e, "TimeoutException") THEN MsgTimeout
    ELSE IF IsInstance(e, "ValueError") THEN <<"Error: ">> \o e.detail
    ELSE <<"Error: ", e.type, ": ">> \o e.detail

_handle_api_error(e) ==
    IF IsInstance(e, "HTTPStatusError")
    THEN CASE e.status = 401 -> MsgAuthFailed
           [] e.status = 403 -> MsgPermission
           [] e.status = 404 -> MsgNotFound
           [] e.status = 429 -> MsgRateLimit
           [] OTHER -> <<"Error: API returned ">> \o IntToStr(e.status)
                           \o <<". Response: ">> \o Slice(e.body, 500)
    ELSE IF IsInstance(e, "TimeoutException") THEN MsgTimeout
    ELSE IF IsInstance(e, "ValueError") THEN <<"Error: ">> \o e.detail
    ELSE <<"Error: ", e.type, ": ">> \o e.detail

-----------------------------------------------------------------------------
(* Credential provider *)

\* a credential provider that hands out headers without looking at the token
GetHeadersNoCheck(token) ==
    Ok([Authorization |-> <<"Bearer ">> \o token,
        ContentType |-> <<"application/json">>,
        Accept |-> <<"application/json">>])

_get_headers(token) ==
    IF token = <<>>
    THEN Raise(Exc("ValueError", MsgNoToken))
    ELSE Ok([Authorization |-> <<"Bearer ">> \o token,
             ContentType |-> <<"application/json">>,
             Accept |-> <<"application/json">>])

-----------------------------------------------------------------------------
(* Date filter translation: datetime.fromisoformat(s.replace("Z", "+00:00")) *)
(* followed by str(int(dt.timestamp()))                                      *)

DigitVal(c) == (CHOOSE i \in 1..10 : Digit[i] = c) - 1

AllDigits(s, i, j) == \A k \in i..j : \E n \in 1..10 : Digit[n] = s[k]

RECURSIVE Num(_, _, _)
Num(s, i, j) == IF j < i THEN 0 ELSE Num(s, i, j - 1) * 10 + DigitVal(s[j])

\* s.replace("Z", "+00:00")
RECURSIVE ReplaceZ(_)
ReplaceZ(s) ==
    IF s = <<>> THEN <<>>
    ELSE (IF Head(s) = "Z" THEN <<"+", "0", "0", ":", "0", "0">> ELSE <<Head(s)>>)
             \o ReplaceZ(Tail(s))

DaysInMonth(y, m) ==
    IF m = 2 THEN (IF (y % 4 = 0 /\ y % 100 # 0) \/ y % 400 = 0 THEN 29 ELSE 28)
    ELSE IF m \in {4, 6, 9, 11} THEN 30 ELSE 31

\* days from 1970-01-01 to the civil date y-m-d (proleptic Gregorian)
DaysFromCivil(y, m, d) ==
    LET yy == IF m <= 2 THEN y - 1 ELSE y
        era == yy \div 400
        yoe == yy - era * 400
        mp == (m + 9) % 12
        doy == (153 * mp + 2) \div 5 + d - 1
        doe == yoe * 365 + yoe \div 4 - yoe \div 100 + doy
    IN  era * 146097 + doe - 719468

\* datetime.fromisoformat for the forms YYYY-MM-DD, YYYY-MM-DD?HH:MM:SS and
\* YYYY-MM-DD?HH:MM:SS+HH:MM (the forms every Python 3.7+ parses alike)
fromisoformat(s) ==
    LET n == Len(s)
        dateOk == /\ n >= 10
                  /\ AllDigits(s, 1, 4) /\ s[5] = "-"
                  /\ AllDigits(s, 6, 7) /\ s[8] = "-"
                  /\ AllDigits(s, 9, 10)
        timeOk == /\ n >= 19
                  /\ AllDigits(s, 12, 13) /\ s[14] = ":"
                  /\ AllDigits(s, 15, 16) /\ s[17] = ":"
                  /\ AllDigits(s, 18, 19)
                  /\ Num(s, 12, 13) < 24 /\ Num(s, 15, 16) < 60 /\ Num(s, 18, 19) < 60
        offOk == /\ n = 25
                 /\ s[20] \in {"+", "-"}
                 /\ AllDigits(s, 21, 22) /\ s[23] = ":" /\ AllDigits(s, 24, 25)
                 /\ Num(s, 21, 22) < 24 /\ Num(s, 24, 25) < 60
        y == Num(s, 1, 4)
        m == Num(s, 6, 7)
        d == Num(s, 9, 10)
    IN  IF ~(n \in {10, 19, 25} /\ dateOk /\ (n > 10 => timeOk) /\ (n > 19 => offOk))
        THEN Raise(Exc("ValueError", <<"Invalid isoformat string: ", "'">> \o s \o <<"'">>))
        ELSE IF y < 1 THEN Raise(Exc("ValueError", <<"year ">> \o IntToStr(y) \o <<" is out of range">>))
        ELSE IF m < 1 \/ m > 12 THEN Raise(Exc("ValueError", <<"month must be in 1..12">>))
        ELSE IF d < 1 \/ d > DaysInMonth(y, m)
             THEN Raise(Exc("ValueError", <<"day is out of range for month">>))
        ELSE Ok([year |-> y, month |-> m, day |-> d,
                 hour |-> IF n > 10 THEN Num(s, 12, 13) ELSE 0,
                 minute |-> IF n > 10 THEN Num(s, 15, 16) ELSE 0,
                 second |-> IF n > 10 THEN Num(s, 18, 19) ELSE 0,
                 aware |-> n = 25,
                 utcoffset |-> IF n = 25
                               THEN (IF s[20] = "-" THEN -1 ELSE 1)
                                        * (Num(s, 21, 22) * 60 + Num(s, 24, 25))
                               ELSE 0])

\* seconds since the epoch of the wall-clock reading dt taken at UTC
CivilSeconds(dt) ==
    DaysFromCivil(dt.year, dt.month, dt.day) * 86400
        + dt.hour * 3600 + dt.minute * 60 + dt.second

\* dt.timestamp(): an aware datetime is shifted by its own offset, a naive one
\* is read as local time of the process
timestamp(dt, localOffset) ==
    CivilSeconds(dt) - (IF dt.aware THEN dt.utcoffset ELSE localOffset) * 60

\* the wire value of a date filter, or the exception the conversion raises
ConvertDate(s, localOffset) ==
    Then(fromisoformat(ReplaceZ(s)),
         LAMBDA dt : Ok(IntToStr(timestamp(dt, localOffset))))

-----------------------------------------------------------------------------
(* JSON values, as response.json() returns them *)

JNull == [t |-> "null"]
JStr(s) == [t |-> "str", v |-> s]
JInt(n) == [t |-> "int", v |-> n]
JBool(b) == [t |-> "bool", v |-> b]
JList(items) == [t |-> "list", v |-> items]
JObj(d) == [t |-> "obj", v |-> d]

\* bool(x)
Truthy(j) ==
    CASE j.t = "null" -> FALSE
      [] j.t = "str" -> j.v # <<>>
      [] j.t = "int" -> j.v # 0
      [] j.t = "bool" -> j.v
      [] j.t = "list" -> j.v # <<>>
      [] j.t = "obj" -> DOMAIN j.v # {}

\* type(x).__name__
PyType(j) ==
    CASE j.t = "null" -> "NoneType"
      [] j.t = "str" -> "str"
      [] j.t = "int" -> "int"
      [] j.t = "bool" -> "bool"
      [] j.t = "list" -> "list"
      [] j.t = "obj" -> "dict"

\* f"{x}"
Fmt(j) ==
    CASE j.t = "null" -> <<"None">>
      [] j.t = "str" -> j.v
      [] j.t = "int" -> IntToStr(j.v)
      [] j.t = "bool" -> IF j.v THEN <<"True">> ELSE <<"False">>
      [] j.t = "list" -> <<"[...]">>
      [] j.t = "obj" -> <<"{...}">>

\* x.get(key, default) on a dict x
Get(j, key, default) == IF key \in DOMAIN j.v THEN j.v[key] ELSE default

\* a or b
OrElse(a, b) == IF Truthy(a) THEN a ELSE b

NoAttrGet(j) ==
    Raise(Exc("AttributeError", <<"'", PyType(j), "' object has no attribute 'get'">>))

NoLen(j) ==
    Raise(Exc("TypeError", <<"object of type '", PyType(j), "' has no len()">>))

NotIterable(j) ==
    Raise(Exc("TypeError", <<"'", PyType(j), "' object is not iterable">>))

JoinTypeError(j) ==
    Raise(Exc("TypeError", <<"sequence item: expected str instance, ", PyType(j), " found">>))

\* the first failed result of a sequence of results, or Ok of their values
AllOk(rs) ==
    IF \E i \in 1..Len(rs) : ~rs[i].ok
    THEN rs[SetMin({i \in 1..Len(rs) : ~rs[i].ok})]
    ELSE Ok([i \in 1..Len(rs) |-> rs[i].val])

\* the keys of a dict as str values, in the dict's order (an arbitrary fixed one)
RECURSIVE KeySeq(_)
KeySeq(K) ==
    IF K = {} THEN <<>>
    ELSE LET k == CHOOSE x \in K : TRUE IN <<JStr(<<k>>)>> \o KeySeq(K \ {k})

\* the elements a for-loop over x visits, or the TypeError it raises
Iterate(j) ==
    CASE j.t = "list" -> Ok(j.v)
      [] j.t = "str" -> Ok([i \in 1..Len(j.v) |-> JStr(<<j.v[i]>>)])
      [] j.t = "obj" -> Ok(KeySeq(DOMAIN j.v))
      [] OTHER -> NotIterable(j)

-----------------------------------------------------------------------------
(* Formatting helpers.  The em dash and the bullet of the source's literals *)
(* are written "--" and "*".                                               *)

Pad2(n) == IF n < 10 THEN <<"0">> \o IntToStr(n) ELSE IntToStr(n)

\* the civil date of a day number (inverse of DaysFromCivil)
CivilFromDays(z0) ==
    LET z == z0 + 719468
        era == z \div 146097
        doe == z - era * 146097
        yoe == (doe - doe \div 1460 + doe \div 36524 - doe \div 146096) \div 365
        doy == doe - (365 * yoe + yoe \div 4 - yoe \div 100)
        mp == (5 * doy + 2) \div 153
        d == doy - (153 * mp + 2) \div 5 + 1
        m == IF mp < 10 THEN mp + 3 ELSE mp - 9
        y == yoe + era * 400 + (IF m <= 2 THEN 1 ELSE 0)
    IN  [year |-> y, month |-> m, day |-> d]

_unix_to_str(ts) ==
    IF ~Truthy(ts) THEN Ok(<<"N/A">>)
    ELSE IF ts.t \notin {"int", "bool"}
    THEN Raise(Exc("TypeError", <<"an integer is required (got type ", PyType(ts), ")">>))
    ELSE LET n == IF ts.t = "bool" THEN 1 ELSE ts.v
             c == CivilFromDays(n \div 86400)
             r == n % 86400
         IN  Ok(Rep("0", 4 - Len(IntToStr(c.year))) \o IntToStr(c.year)
                  \o <<"-">> \o Pad2(c.month) \o <<"-">> \o Pad2(c.day)
                  \o <<" ">> \o Pad2(r \div 3600) \o <<":">> \o Pad2((r % 3600) \div 60)
                  \o <<":">> \o Pad2(r % 60) \o <<" UTC">>)

AddressKeys == <<"street_address_1", "street_address_2", "city", "state", "postal_code">>

\* the subsequence of the truthy elements
RECURSIVE TruthyOnly(_)
TruthyOnly(js) ==
    IF js = <<>> THEN <<>>
    ELSE (IF Truthy(Head(js)) THEN <<Head(js)>> ELSE <<>>) \o TruthyOnly(Tail(js))

\* sep.join(js) for a sequence of values: every one must be a str
JoinValues(sep, js) ==
    IF \E i \in 1..Len(js) : js[i].t # "str"
    THEN JoinTypeError(js[SetMin({i \in 1..Len(js) : js[i].t # "str"})])
    ELSE Ok(Join(sep, [i \in 1..Len(js) |-> js[i].v]))

_format_address(addr) ==
    IF ~Truthy(addr) THEN Ok(<<"No address">>)
    ELSE IF addr.t # "obj" THEN NoAttrGet(addr)
    ELSE LET parts == [i \in 1..5 |-> Get(addr, AddressKeys[i], JStr(<<>>))]
         IN  JoinValues(<<", ">>, TruthyOnly(parts))

\* uri.get("url") or uri.get("uri", "")
UriAddress(uri) == OrElse(Get(uri, "url", JNull), Get(uri, "uri", JStr(<<>>)))

\* the loop's return at element u: its address, or the AttributeError of an
\* element that is no dict
UrlAt(u) == IF u.t # "obj" THEN NoAttrGet(u) ELSE Ok(UriAddress(u))

\* the indices at which the loop over `seen` ends: a match, or an element
\* that is no dict
LoopEnds(seen, size) ==
    {i \in 1..Len(seen) :
        \/ seen[i].t # "obj"
        \/ Get(seen[i], "type", JNull) = JStr(size)}

\* a selection without the fallback to the first entry
GetPhotoUrlNoFallback(uris, size) ==
    Then(Iterate(OrElse(uris, JList(<<>>))),
         LAMBDA seen :
            Let(LoopEnds(seen, size),
                LAMBDA ends :
                    IF ends # {} THEN UrlAt(seen[SetMin(ends)])
                    ELSE Ok(JStr(<<"No URL available">>))))

_get_photo_url(uris, size) ==
    Then(Iterate(OrElse(uris, JList(<<>>))),
         LAMBDA seen :
            Let(LoopEnds(seen, size),
                LAMBDA ends :
                    IF ends # {} THEN UrlAt(seen[SetMin(ends)])
                    ELSE IF Truthy(uris) THEN Ok(UriAddress(uris.v[1]))
                    ELSE Ok(JStr(<<"No URL available">>))))

\* len(x), for the values that have one
PyLen(j) ==
    CASE j.t \in {"list", "str"} -> Ok(Len(j.v))
      [] j.t = "obj" -> Ok(Cardinality(DOMAIN j.v))
      [] OTHER -> NoLen(j)

\* "\n".join(lines)
Lines(lines) == Join(<<"\n">>, lines)

\* x[:200] followed by the ellipsis marker, as the notepad line shows it
NotepadExcerpt(notepad) ==
    CASE notepad.t = "str" ->
            Ok(Slice(notepad.v, 200) \o (IF Len(notepad.v) > 200 THEN <<"...">> ELSE <<>>))
      [] notepad.t = "list" ->
            Ok(Fmt(notepad) \o (IF Len(notepad.v) > 200 THEN <<"...">> ELSE <<>>))
      [] OTHER ->
            Raise(Exc("TypeError", <<"'", PyType(notepad), "' object is not subscriptable">>))

\* the "  Contact: ..." line of a project, if any
ContactLine(contact) ==
    IF ~Truthy(contact) THEN Ok(<<>>)
    ELSE IF contact.t # "obj" THEN NoAttrGet(contact)
    ELSE IF ~Truthy(Get(contact, "name", JNull)) THEN Ok(<<>>)
    ELSE Then(JoinValues(<<" | ">>,
                         <<contact.v["name"]>>
                           \o TruthyOnly(<<Get(contact, "phone_number", JNull)>>)
                           \o TruthyOnly(<<Get(contact, "email", JNull)>>)),
              LAMBDA joined : Ok(<< <<"  Contact: ">> \o joined >>))

\* the "  Integrations: ..." line of a project, if any
\* f"{i.get('type', '?')}:{i.get('relation_id', '?')}"
IntegrationText(i) ==
    IF i.t # "obj" THEN NoAttrGet(i)
    ELSE Ok(Fmt(Get(i, "type", JStr(<<"?">>))) \o <<":">>
              \o Fmt(Get(i, "relation_id", JStr(<<"?">>))))

\* [F(x) for x in data], or the first exception raised on the way
MapItems(data, F(_)) ==
    Then(Iterate(data), LAMBDA xs : AllOk([i \in 1..Len(xs) |-> F(xs[i])]))

IntegrationsLine(integrations) ==
    IF ~Truthy(integrations) THEN Ok(<<>>)
    ELSE Then(MapItems(integrations, IntegrationText),
              LAMBDA texts : Ok(<< <<"  Integrations: ">> \o Join(<<", ">>, texts) >>))

_format_project_summary(project) ==
    IF project.t # "obj" THEN NoAttrGet(project)
    ELSE
    Then(_format_address(Get(project, "address", JNull)), LAMBDA addr :
    Then(_unix_to_str(Get(project, "created_at", JNull)), LAMBDA created :
    Then(_unix_to_str(Get(project, "updated_at", JNull)), LAMBDA updated :
    Let(Get(project, "notepad", JStr(<<>>)), LAMBDA notepad :
    Then(IF Truthy(notepad) THEN NotepadExcerpt(notepad) ELSE Ok(<<>>), LAMBDA excerpt :
    Then(ContactLine(Get(project, "primary_contact", JNull)), LAMBDA contact :
    Then(IntegrationsLine(Get(project, "integrations", JList(<<>>))), LAMBDA integrations :
        Ok(Lines(
            << <<"**">> \o Fmt(OrElse(Get(project, "name", JNull), JStr(<<"Unnamed">>)))
                 \o <<"** (ID: ">> \o Fmt(Get(project, "id", JStr(<<"?">>))) \o <<")">>
                 \o (IF Truthy(Get(project, "archived", JNull))
                     THEN <<" [ARCHIVED]">> ELSE <<>>),
               <<"  Status: ">> \o Fmt(Get(project, "status", JStr(<<"?">>))),
               <<"  Address: ">> \o addr,
               <<"  Created: ">> \o created \o <<" | Updated: ">> \o updated >>
            \o (IF Truthy(Get(project, "project_url", JStr(<<>>)))
                THEN << <<"  URL: ">> \o Fmt(Get(project, "project_url", JStr(<<>>))) >>
                ELSE <<>>)
            \o (IF Truthy(notepad) THEN << <<"  Notepad: ">> \o excerpt >> ELSE <<>>)
            \o contact
            \o integrations)))))))))

_format_photo_summary(photo) ==
    IF photo.t # "obj" THEN NoAttrGet(photo)
    ELSE
    Then(_unix_to_str(Get(photo, "captured_at", JNull)), LAMBDA captured :
    Then(_get_photo_url(Get(photo, "uris", JList(<<>>)), <<"web">>), LAMBDA url :
        Ok(Lines(
            << <<"Photo ">> \o Fmt(Get(photo, "id", JStr(<<"?">>)))
                 \o (IF Truthy(Get(photo, "internal", JNull))
                     THEN <<" [INTERNAL]">> ELSE <<>>)
                 \o <<" -- by ">> \o Fmt(Get(photo, "creator_name", JStr(<<"Unknown">>)))
                 \o <<" on ">> \o captured >>
            \o (IF Truthy(Get(photo, "description", JStr(<<>>)))
                THEN << <<"  Description: ">> \o Fmt(Get(photo, "description", JStr(<<>>))) >>
                ELSE <<>>)
            \o << <<"  Image: ">> \o Fmt(url) >>
            \o (IF Truthy(Get(photo, "photo_url", JStr(<<>>)))
                THEN << <<"  Web: ">> \o Fmt(Get(photo, "photo_url", JStr(<<>>))) >>
                ELSE <<>>)))))

\* "  * {display_value} (ID: {id})", the line of a label or a tag
TagLine(tag) ==
    IF tag.t # "obj" THEN NoAttrGet(tag)
    ELSE Ok(<<"  * ">> \o Fmt(Get(tag, "display_value", JStr(<<"?">>)))
              \o <<" (ID: ">> \o Fmt(Get(tag, "id", JStr(<<"?">>))) \o <<")">>)

\* "  [{created}] **{author}**: {content}", the line of a comment
CommentLine(comment) ==
    IF comment.t # "obj" THEN NoAttrGet(comment)
    ELSE Then(_unix_to_str(Get(comment, "created_at", JNull)),
              LAMBDA created :
                Ok(<<"  [">> \o created \o <<"] **">>
                     \o Fmt(Get(comment, "creator_name", JStr(<<"Unknown">>)))
                     \o <<"**: ">> \o Fmt(Get(comment, "content", JStr(<<>>)))))

\* "  * {name} -- ID: {uid} | {email} | {status}", the line of a user
UserLine(user) ==
    IF user.t # "obj" THEN NoAttrGet(user)
    ELSE Ok(<<"  * ">>
              \o Strip(Fmt(Get(user, "first_name", JStr(<<>>))) \o <<" ">>
                         \o Fmt(Get(user, "last_name", JStr(<<>>))))
              \o <<" -- ID: ">> \o Fmt(Get(user, "id", JStr(<<"?">>)))
              \o <<" | ">> \o Fmt(Get(user, "email_address", JStr(<<>>)))
              \o <<" | ">> \o Fmt(Get(user, "status", JStr(<<"?">>))))

-----------------------------------------------------------------------------
(* Parameter models *)

DEFAULT_PER_PAGE == 25

\* Field(...) declarations; a bound of -1 is a bound that is not declared
StrField(minLen, maxLen) ==
    [type |-> "str", required |-> TRUE, minLen |-> minLen, maxLen |-> maxLen,
     ge |-> -1, le |-> -1, default |-> 0]
OptStrField ==
    [type |-> "str", required |-> FALSE, minLen |-> -1, maxLen |-> -1,
     ge |-> -1, le |-> -1, default |-> 0]
IntField(default, ge, le) ==
    [type |-> "int", required |-> FALSE, minLen |-> -1, maxLen |-> -1,
     ge |-> ge, le |-> le, default |-> default]
StrListField(minLen) ==
    [type |-> "list", required |-> TRUE, minLen |-> minLen, maxLen |-> -1,
     ge |-> -1, le |-> -1, default |-> 0]

\* the input model of each operation: field name -> declaration
Schema(op) ==
    CASE op = "cc_search_projects" ->
            [query |-> StrField(1, 200),
             page |-> IntField(1, 1, -1),
             per_page |-> IntField(DEFAULT_PER_PAGE, 1, 100)]
      [] op = "cc_get_project" -> [project_id |-> StrField(1, -1)]
      [] op = "cc_list_project_photos" ->
            [project_id |-> StrField(1, -1),
             start_date |-> OptStrField,
             end_date |-> OptStrField,
             user_id |-> OptStrField,
             tag_id |-> OptStrField,
             page |-> IntField(1, 1, -1),
             per_page |-> IntField(DEFAULT_PER_PAGE, 1, 100)]
      [] op = "cc_get_photo" -> [photo_id |-> StrField(1, -1)]
      [] op = "cc_list_project_labels" -> [project_id |-> StrField(1, -1)]
      [] op = "cc_list_project_comments" ->
            [project_id |-> StrField(1, -1),
             page |-> IntField(1, 1, -1),
             per_page |-> IntField(DEFAULT_PER_PAGE, 1, 100)]
      [] op = "cc_list_users" ->
            [page |-> IntField(1, 1, -1), per_page |-> IntField(100, 1, 100)]
      [] op = "cc_list_tags" ->
            [page |-> IntField(1, 1, -1), per_page |-> IntField(100, 1, 100)]
      [] op = "cc_add_project_comment" ->
            [project_id |-> StrField(1, -1), content |-> StrField(1, 5000)]
      [] op = "cc_add_photo_tags" ->
            [photo_id |-> StrField(1, -1), tags |-> StrListField(1)]
      [] op = "cc_add_project_labels" ->
            [project_id |-> StrField(1, -1), labels |-> StrListField(1)]
      [] op = "cc_update_project_notepad" ->
            [project_id |-> StrField(1, -1), notepad |-> StrField(-1, 10000)]
      [] op = "cc_add_photo_comment" ->
            [photo_id |-> StrField(1, -1), content |-> StrField(1, 5000)]

\* model_config: str_strip_whitespace
StripsWhitespace(op) == op \notin {"cc_list_users", "cc_list_tags"}

\* the value of a field after the model's normalisation
Normalized(op, decl, v) ==
    IF ~StripsWhitespace(op) THEN v
    ELSE CASE decl.type = "str" -> Strip(v)
           [] decl.type = "list" -> [i \in 1..Len(v) |-> Strip(v[i])]
           [] OTHER -> v

ErrorIf(cond, f, reason) == IF cond THEN {[field |-> f, reason |-> reason]} ELSE {}

\* a validator that does not look at max_length
FieldErrorsNoMaxLen(f, decl, v) ==
    CASE decl.type = "str" ->
            ErrorIf(Len(v) < decl.minLen, f, "string_too_short")
      [] decl.type = "int" ->
            ErrorIf(decl.ge # -1 /\ v < decl.ge, f, "greater_than_equal")
            \cup ErrorIf(decl.le # -1 /\ v > decl.le, f, "less_than_equal")
      [] decl.type = "list" ->
            ErrorIf(Len(v) < decl.minLen, f, "too_short")

\* a validator that does not look at le
FieldErrorsNoUpper(f, decl, v) ==
    CASE decl.type = "str" ->
            ErrorIf(Len(v) < decl.minLen, f, "string_too_short")
            \cup ErrorIf(decl.maxLen # -1 /\ Len(v) > decl.maxLen, f, "string_too_long")
      [] decl.type = "int" ->
            ErrorIf(decl.ge # -1 /\ v < decl.ge, f, "greater_than_equal")
      [] decl.type = "list" ->
            ErrorIf(Len(v) < decl.minLen, f, "too_short")

\* the violations of one field's declaration by a (normalised) value
FieldErrors(f, decl, v) ==
    CASE decl.type = "str" ->
            ErrorIf(Len(v) < decl.minLen, f, "string_too_short")
            \cup ErrorIf(decl.maxLen # -1 /\ Len(v) > decl.maxLen, f, "string_too_long")
      [] decl.type = "int" ->
            ErrorIf(decl.ge # -1 /\ v < decl.ge, f, "greater_than_equal")
            \cup ErrorIf(decl.le # -1 /\ v > decl.le, f, "less_than_equal")
      [] decl.type = "list" ->
            ErrorIf(Len(v) < decl.minLen, f, "too_short")

\* model validation of a raw argument record: the set of {field, reason} errors
\* (extra="forbid", required fields, length and range bounds)
Validate(op, raw) ==
    LET schema == Schema(op)
    IN  {[field |-> f, reason |-> "extra_forbidden"] : f \in DOMAIN raw \ DOMAIN schema}
        \cup {[field |-> f, reason |-> "missing"] :
                f \in {g \in DOMAIN schema \ DOMAIN raw : schema[g].required}}
        \cup UNION {FieldErrors(f, schema[f], Normalized(op, schema[f], raw[f])) :
                f \in DOMAIN raw \cap DOMAIN schema}

\* the validated record: normalised values, defaults filled in; an Optional
\* field left out stays absent (None)
Params(op, raw) ==
    LET schema == Schema(op)
        present == DOMAIN raw \cap DOMAIN schema
        defaulted == {f \in DOMAIN schema \ DOMAIN raw : schema[f].type = "int"}
    IN  [f \in present \cup defaulted |->
            IF f \in present THEN Normalized(op, schema[f], raw[f]) ELSE schema[f].default]

\* params.f for an Optional[str] field: the value, or "" standing for None
\* (both are falsy, and a falsy value is never used)
Opt(params, f) == IF f \in DOMAIN params THEN params[f] ELSE <<>>

-----------------------------------------------------------------------------
(* Transport: the request side *)

BASE_URL == <<"https://api.companycam.com/v2">>

\* the request a client method puts on the wire, or the exception raised
\* while its arguments are evaluated (no request is issued then)
SendRequest(method, token, path, query, body) ==
    Then(_get_headers(token),
         LAMBDA headers :
            Ok([method |-> method, url |-> BASE_URL \o path, headers |-> headers,
                params |-> query, json |-> body]))

\* a read that goes out as a POST
ApiGetAsPost(token, path, query) == SendRequest("POST", token, path, query, EmptyDict)

_api_get(token, path, query) == SendRequest("GET", token, path, query, EmptyDict)
_api_post(token, path, data) == SendRequest("POST", token, path, EmptyDict, data)
_api_put(token, path, data) == SendRequest("PUT", token, path, EmptyDict, data)

\* {"page": params.page, "per_page": params.per_page}
PageQuery(params) == [page |-> params.page, per_page |-> params.per_page]

\* a dict extended by one entry when cond holds
WithIf(d, cond, k, v) ==
    IF cond THEN [x \in DOMAIN d \cup {k} |-> IF x = k THEN v ELSE d[x]] ELSE d

\* api_params of cc_list_project_photos, or the exception a date raises
\* the wire value of an optional date filter; "" when it is not given
DateOrNone(s, localOffset) == IF s # <<>> THEN ConvertDate(s, localOffset) ELSE Ok(<<>>)

\* api_params of cc_list_project_photos, or the exception a date raises
PhotosQuery(params, localOffset) ==
    Then(DateOrNone(Opt(params, "start_date"), localOffset), LAMBDA start :
    Then(DateOrNone(Opt(params, "end_date"), localOffset), LAMBDA end :
        Ok(WithIf(WithIf(WithIf(WithIf(PageQuery(params),
              Opt(params, "start_date") # <<>>, "start_date", start),
              Opt(params, "end_date") # <<>>, "end_date", end),
              Opt(params, "user_id") # <<>>, "user_ids[]", Opt(params, "user_id")),
              Opt(params, "tag_id") # <<>>, "tag_ids[]", Opt(params, "tag_id")))))

\* a notepad request that sends only the excerpt the summary shows
NotepadRequestExcerpt(token, params) ==
    _api_put(token, <<"/projects/">> \o params.project_id \o <<"/notepad">>,
             [notepad |-> Slice(params.notepad, 200)])

\* the call cc_update_project_notepad makes
NotepadRequest(token, params) ==
    _api_put(token, <<"/projects/">> \o params.project_id \o <<"/notepad">>,
             [notepad |-> params.notepad])

\* the part of each handler up to its await: the request issued, or the
\* exception raised before any request
Begin(op, params, token, localOffset) ==
    CASE op = "cc_search_projects" ->
            _api_get(token, <<"/projects">>,
                     [query |-> params.query, page |-> params.page,
                      per_page |-> params.per_page])
      [] op = "cc_get_project" ->
            _api_get(token, <<"/projects/">> \o params.project_id, EmptyDict)
      [] op = "cc_list_project_photos" ->
            Then(PhotosQuery(params, localOffset),
                 LAMBDA q : _api_get(token,
                                     <<"/projects/">> \o params.project_id \o <<"/photos">>,
                                     q))
      [] op = "cc_get_photo" ->
            _api_get(token, <<"/photos/">> \o params.photo_id, EmptyDict)
      [] op = "cc_list_project_labels" ->
            _api_get(token, <<"/projects/">> \o params.project_id \o <<"/labels">>, EmptyDict)
      [] op = "cc_list_project_comments" ->
            _api_get(token, <<"/projects/">> \o params.project_id \o <<"/comments">>,
                     PageQuery(params))
      [] op = "cc_list_users" -> _api_get(token, <<"/users">>, PageQuery(params))
      [] op = "cc_list_tags" -> _api_get(token, <<"/tags">>, PageQuery(params))
      [] op = "cc_add_project_comment" ->
            _api_post(token, <<"/projects/">> \o params.project_id \o <<"/comments">>,
                      [comment |-> [content |-> params.content]])
      [] op = "cc_add_photo_tags" ->
            _api_post(token, <<"/photos/">> \o params.photo_id \o <<"/tags">>,
                      [tag |-> [display_values |-> params.tags]])
      [] op = "cc_add_project_labels" ->
            _api_post(token, <<"/projects/">> \o params.project_id \o <<"/labels">>,
                      [project |-> [labels |-> params.labels]])
      [] op = "cc_update_project_notepad" -> NotepadRequest(token, params)
      [] op = "cc_add_photo_comment" ->
            _api_post(token, <<"/photos/">> \o params.photo_id \o <<"/comments">>,
                      [comment |-> [content |-> params.content]])

-----------------------------------------------------------------------------
(* Transport: the response side *)

\* what the awaited client call ends with: a response (status, body text and
\* what response.json() makes of the body), a timeout or a connection fault
Response(status, text, json) ==
    [kind |-> "response", status |-> status, text |-> text, json |-> json]

Unparseable ==
    Raise(Exc("JSONDecodeError", <<"Expecting value: line 1 column 1 (char 0)">>))

\* response.raise_for_status(); return response.json()
Receive(outcome) ==
    CASE outcome.kind = "timeout" -> Raise(Exc("ReadTimeout", <<"The read operation timed out">>))
      [] outcome.kind = "connect" ->
            Raise(Exc("ConnectError", <<"All connection attempts failed">>))
      [] outcome.kind = "response" ->
            IF outcome.status \notin 200..299
            THEN Raise(HTTPStatusError(outcome.status, outcome.text))
            ELSE outcome.json

-----------------------------------------------------------------------------
(* Operation dispatch: the part of each handler after its await *)

\* each element followed by an empty line
WithBlankLines(texts) ==
    [i \in 1..(2 * Len(texts)) |-> IF i % 2 = 1 THEN texts[(i + 1) \div 2] ELSE <<>>]

\* the "more results" line, appended when the page came back full
MoreHint(count, params, lead) ==
    IF count = params.per_page
    THEN << lead \o IntToStr(params.page + 1) \o <<"._">> >>
    ELSE <<>>

SearchProjectsResult(params, data) ==
    IF ~Truthy(data)
    THEN Ok(<<"No projects found matching '">> \o params.query \o <<"'.">>)
    ELSE
    Then(PyLen(data), LAMBDA n :
    Then(MapItems(data, _format_project_summary), LAMBDA items :
        Ok(Lines(
            << <<"**Found ">> \o IntToStr(n) \o <<" project(s) matching '">>
                 \o params.query \o <<"'** (page ">> \o IntToStr(params.page)
                 \o <<"):\n">> >>
            \o WithBlankLines(items)
            \o MoreHint(n, params, <<"_More results may be available on page ">>)))))

GetProjectResult(params, data) == _format_project_summary(data)

ListProjectPhotosResult(params, data) ==
    IF ~Truthy(data)
    THEN Ok(<<"No photos found for project ">> \o params.project_id
              \o <<" with the given filters.">>)
    ELSE
    Then(PyLen(data), LAMBDA n :
    Then(MapItems(data, _format_photo_summary), LAMBDA items :
        Ok(Lines(
            << <<"**">> \o IntToStr(n) \o <<" photo(s)** for project ">>
                 \o params.project_id \o <<" (page ">> \o IntToStr(params.page)
                 \o <<"):\n">> >>
            \o WithBlankLines(items)
            \o MoreHint(n, params, <<"_More photos may be available on page ">>)))))

\* "  Location: {lat}, {lon}"
LocationLine(c) ==
    IF c.t # "obj" THEN NoAttrGet(c)
    ELSE Ok(<<"  Location: ">> \o Fmt(Get(c, "lat", JStr(<<"?">>))) \o <<", ">>
              \o Fmt(Get(c, "lon", JStr(<<"?">>))))

\* "    {type}: {address}"
SizeLine(uri) ==
    IF uri.t # "obj" THEN NoAttrGet(uri)
    ELSE Ok(<<"    ">> \o Fmt(Get(uri, "type", JStr(<<"?">>))) \o <<": ">>
              \o Fmt(UriAddress(uri)))

\* for c in coords if isinstance(coords, list) else [coords]
LocationLines(coords) ==
    IF ~Truthy(coords) THEN Ok(<<>>)
    ELSE MapItems(IF coords.t = "list" THEN coords ELSE JList(<<coords>>), LocationLine)

GetPhotoResult(params, data) ==
    Then(_format_photo_summary(data), LAMBDA summary :
    Then(LocationLines(Get(data, "coordinates", JNull)), LAMBDA locations :
    Then(PyLen(Get(data, "uris", JList(<<>>))), LAMBDA count :
    Then(IF count > 1 THEN MapItems(Get(data, "uris", JList(<<>>)), SizeLine) ELSE Ok(<<>>),
         LAMBDA sizes :
        Ok(Lines(
            <<summary>>
            \o locations
            \o (IF count > 1 THEN << <<"  All sizes:">> >> \o sizes ELSE <<>>)
            \o << <<"  Processing: ">> \o Fmt(Get(data, "processing_status", JStr(<<"?">>))),
                  <<"  Project ID: ">> \o Fmt(Get(data, "project_id", JStr(<<"?">>))) >>))))))

ListProjectLabelsResult(params, data) ==
    IF ~Truthy(data)
    THEN Ok(<<"No labels on project ">> \o params.project_id \o <<".">>)
    ELSE
    Then(PyLen(data), LAMBDA n :
    Then(MapItems(data, TagLine), LAMBDA items :
        Ok(Lines(
            << <<"**">> \o IntToStr(n) \o <<" label(s)** on project ">>
                 \o params.project_id \o <<":">> >>
            \o items))))

ListProjectCommentsResult(params, data) ==
    IF ~Truthy(data)
    THEN Ok(<<"No comments on project ">> \o params.project_id \o <<".">>)
    ELSE
    Then(PyLen(data), LAMBDA n :
    Then(MapItems(data, CommentLine), LAMBDA items :
        Ok(Lines(
            << <<"**">> \o IntToStr(n) \o <<" comment(s)** on project ">>
                 \o params.project_id \o <<":\n">> >>
            \o items))))

ListUsersResult(params, data) ==
    IF ~Truthy(data)
    THEN Ok(<<"No users found.">>)
    ELSE
    Then(PyLen(data), LAMBDA n :
    Then(MapItems(data, UserLine), LAMBDA items :
        Ok(Lines(
            << <<"**">> \o IntToStr(n) \o <<" user(s):**\n">> >>
            \o items))))

ListTagsResult(params, data) ==
    IF ~Truthy(data)
    THEN Ok(<<"No tags found.">>)
    ELSE
    Then(PyLen(data), LAMBDA n :
    Then(MapItems(data, TagLine), LAMBDA items :
        Ok(Lines(
            << <<"**">> \o IntToStr(n) \o <<" tag(s):**\n">> >>
            \o items))))

AddProjectCommentResult(params, data) ==
    IF data.t # "obj" THEN NoAttrGet(data)
    ELSE Then(_unix_to_str(Get(data, "created_at", JNull)),
              LAMBDA created :
                Ok(<<"Comment added to project ">> \o params.project_id \o <<" by ">>
                     \o Fmt(Get(data, "creator_name", JStr(<<"Unknown">>)))
                     \o <<" at ">> \o created \o <<":\n\"">>
                     \o Fmt(Get(data, "content", JStr(<<>>))) \o <<"\"">>))

\* t.get("display_value", "?"), kept as a value: the join needs a str
TagName(tag) ==
    IF tag.t # "obj" THEN NoAttrGet(tag) ELSE Ok(Get(tag, "display_value", JStr(<<"?">>)))

\* a confirmation that always lists the tags of the request
AddPhotoTagsEchoRequest(params, data) ==
    Ok(<<"Tags added to photo ">> \o params.photo_id \o <<": ">>
         \o Join(<<", ">>, params.tags))

AddPhotoTagsResult(params, data) ==
    Then(IF data.t = "list" /\ Truthy(data)
         THEN MapItems(data, TagName)
         ELSE Ok([i \in 1..Len(params.tags) |-> JStr(params.tags[i])]),
         LAMBDA tag_names :
            Then(JoinValues(<<", ">>, tag_names),
                 LAMBDA joined :
                    Ok(<<"Tags added to photo ">> \o params.photo_id \o <<": ">> \o joined)))

AddProjectLabelsResult(params, data) ==
    Ok(<<"Labels added to project ">> \o params.project_id \o <<": ">>
         \o Join(<<", ">>, params.labels))

UpdateNotepadResult(params, data) ==
    Ok(<<"Notepad updated for project ">> \o params.project_id \o <<". New content (">>
         \o IntToStr(Len(params.notepad)) \o <<" chars).">>)

AddPhotoCommentResult(params, data) ==
    IF data.t # "obj" THEN NoAttrGet(data)
    ELSE Ok(<<"Comment added to photo ">> \o params.photo_id \o <<" by ">>
              \o Fmt(Get(data, "creator_name", JStr(<<"Unknown">>)))
              \o <<":\n\"">> \o Fmt(Get(data, "content", JStr(<<>>))) \o <<"\"">>)

\* the text a handler composes from the parsed response, or the exception
\* raised on the way
Project(op, params, data) ==
    CASE op = "cc_search_projects" -> SearchProjectsResult(params, data)
      [] op = "cc_get_project" -> GetProjectResult(params, data)
      [] op = "cc_list_project_photos" -> ListProjectPhotosResult(params, data)
      [] op = "cc_get_photo" -> GetPhotoResult(params, data)
      [] op = "cc_list_project_labels" -> ListProjectLabelsResult(params, data)
      [] op = "cc_list_project_comments" -> ListProjectCommentsResult(params, data)
      [] op = "cc_list_users" -> ListUsersResult(params, data)
      [] op = "cc_list_tags" -> ListTagsResult(params, data)
      [] op = "cc_add_project_comment" -> AddProjectCommentResult(params, data)
      [] op = "cc_add_photo_tags" -> AddPhotoTagsResult(params, data)
      [] op = "cc_add_project_labels" -> AddProjectLabelsResult(params, data)
      [] op = "cc_update_project_notepad" -> UpdateNotepadResult(params, data)
      [] op = "cc_add_photo_comment" -> AddPhotoCommentResult(params, data)

\* the part of each handler after its await
Finish(op, params, outcome) ==
    Then(Receive(outcome), LAMBDA data : Project(op, params, data))

NoExc == Exc("", <<>>)

\* an except clause that catches the transport's faults only
ExceptHttpError(r) ==
    IF r.ok THEN [kind |-> "text", text |-> r.val, errors |-> {}, fault |-> NoExc]
    ELSE IF IsInstance(r.exc, "HTTPError")
    THEN [kind |-> "text", text |-> _handle_api_error(r.exc), errors |-> {}, fault |-> r.exc]
    ELSE [kind |-> "raised", text |-> <<>>, errors |-> {}, fault |-> r.exc]

\* try: ... except Exception as e: return _handle_api_error(e)
\* what the caller gets: the text returned, or the exception that escaped
ExceptException(r) ==
    IF r.ok THEN [kind |-> "text", text |-> r.val, errors |-> {}, fault |-> NoExc]
    ELSE IF IsInstance(r.exc, "Exception")
    THEN [kind |-> "text", text |-> _handle_api_error(r.exc), errors |-> {}, fault |-> r.exc]
    ELSE [kind |-> "raised", text |-> <<>>, errors |-> {}, fault |-> r.exc]

\* the caller's result when the arguments fail the input model: the handler
\* is not entered
Rejected(errors) == [kind |-> "rejected", text |-> <<>>, errors |-> errors, fault |-> NoExc]

-----------------------------------------------------------------------------
(* The inputs and the responses the model draws from *)

MaxItems == 2   \* longest list a response carries, besides a full page
MaxPage == 2    \* largest page number asked for

P1 == <<"p", "1">>
P2 == <<"p", "2">>
F1 == <<"f", "1">>

ProjectIds == {P1, P2}

D_DATE == <<"2", "0", "2", "5", "-", "0", "1", "-", "1", "5">>
D_UTC == D_DATE \o <<"T", "0", "0", ":", "0", "0", ":", "0", "0", "Z">>
D_OFFSET == D_DATE \o <<"T", "0", "6", ":", "3", "0", ":", "0", "0", "+", "0", "5", ":", "3", "0">>
D_PADDED == <<" ">> \o D_DATE \o <<" ">>
D_SLASHES == <<"1", "5", "/", "0", "1", "/", "2", "0", "2", "5">>
D_NO_SUCH_DAY == <<"2", "0", "2", "5", "-", "0", "2", "-", "3", "0">>

With(raw, f, v) == [k \in DOMAIN raw \cup {f} |-> IF k = f THEN v ELSE raw[k]]

\* a valid argument record with the required fields only
Base(op) ==
    CASE op = "cc_search_projects" -> [query |-> <<"a">>]
      [] op \in {"cc_get_project", "cc_list_project_photos", "cc_list_project_labels",
                 "cc_list_project_comments"} -> [project_id |-> P1]
      [] op = "cc_get_photo" -> [photo_id |-> F1]
      [] op \in {"cc_list_users", "cc_list_tags"} -> EmptyDict
      [] op \in {"cc_add_project_comment"} -> [project_id |-> P1, content |-> <<"h", "i">>]
      [] op = "cc_add_photo_tags" -> [photo_id |-> F1, tags |-> << <<"A">> >>]
      [] op = "cc_add_project_labels" -> [project_id |-> P1, labels |-> << <<"L">> >>]
      [] op = "cc_update_project_notepad" -> [project_id |-> P1, notepad |-> <<"n">>]
      [] op = "cc_add_photo_comment" -> [photo_id |-> F1, content |-> <<"h", "i">>]

\* the values tried for a field, the valid and the invalid ones
ValuesOf(f) ==
    CASE f = "query" -> {<<" ", "a", " ">>, <<>>, <<" ">>, Rep("q", 200), Rep("q", 201)}
      [] f = "project_id" -> {P2, <<>>, <<" ">>, <<" ">> \o P1 \o <<" ">>}
      [] f = "photo_id" -> {<<>>, <<" ">> \o F1}
      [] f \in {"start_date", "end_date"} ->
            {D_DATE, D_UTC, D_OFFSET, D_PADDED, D_SLASHES, D_NO_SUCH_DAY, <<>>}
      [] f \in {"user_id", "tag_id"} -> {<<"7">>, <<>>}
      [] f = "page" -> 0..MaxPage
      [] f = "per_page" -> (0..MaxItems) \cup {100, 101}
      [] f = "content" -> {<<>>, <<" ", "h", "\n">>, Rep("c", 5000), Rep("c", 5001)}
      [] f \in {"tags", "labels"} -> {<<>>, << <<"A">>, <<" ", "B">> >>}
      [] f = "notepad" ->
            {<<>>, <<" ", "n", "\n">>, Rep("n", 10000), Rep("n", 10001)}

PagedOps ==
    {"cc_search_projects", "cc_list_project_photos", "cc_list_project_comments",
     "cc_list_users", "cc_list_tags"}

\* the argument records an operation is invoked with: the base record, the
\* base with one field changed, left out or added, and a few pairs
RawInputs(op) ==
    LET base == Base(op)
    IN  {base, With(base, "verbose", <<"1">>)}
        \cup UNION {{With(base, f, v) : v \in ValuesOf(f)} : f \in DOMAIN Schema(op)}
        \cup {[k \in DOMAIN base \ {f} |-> base[k]] : f \in DOMAIN base}
        \cup (IF op = "cc_list_project_labels"
              THEN {With(base, "per_page", n) : n \in {1, 100}} ELSE {})
        \cup (IF op \in PagedOps
              THEN {With(With(base, "page", p), "per_page", n) :
                        p \in 1..MaxPage, n \in 1..MaxItems}
              ELSE {})
        \cup (IF op = "cc_list_project_photos"
              THEN {With(With(base, "start_date", a), "end_date", b) :
                        a \in {D_DATE, D_SLASHES}, b \in {D_UTC, D_NO_SUCH_DAY}}
              ELSE {})

S(chunk) == JStr(<<chunk>>)

ProjectFull ==
    JObj([id |-> JStr(P1), name |-> S("Smith Residence"), status |-> S("active"),
          archived |-> JBool(TRUE),
          address |-> JObj([street_address_1 |-> S("1 Main St"), city |-> S("Austin"),
                            state |-> S("TX"), postal_code |-> S("78701")]),
          created_at |-> JInt(1736899200), updated_at |-> JInt(1736985661),
          project_url |-> S("https://app.companycam.com/projects/p1"),
          notepad |-> JStr(Rep("x", 201)),
          primary_contact |-> JObj([name |-> S("Ann"), email |-> S("ann@example.com")]),
          integrations |-> JList(<<JObj([type |-> S("crm"), relation_id |-> S("42")])>>)])
ProjectSparse ==
    JObj([id |-> JStr(P2), address |-> JObj([street_address_1 |-> JStr(<<>>),
                                              city |-> JStr(<<>>)]),
          notepad |-> JNull, primary_contact |-> JNull, created_at |-> JNull])

PhotoFull ==
    JObj([id |-> JStr(F1), project_id |-> JStr(P1), creator_name |-> S("Ann"),
          description |-> S("Roof"), captured_at |-> JInt(1736899200),
          internal |-> JBool(TRUE), processing_status |-> S("processed"),
          coordinates |-> JList(<<JObj([lat |-> S("30.2"), lon |-> S("-97.7")])>>),
          uris |-> JList(<<JObj([type |-> S("thumbnail"), url |-> S("A")]),
                           JObj([type |-> S("web"), url |-> S("B")])>>),
          photo_url |-> S("https://app.companycam.com/photos/f1")])
PhotoSparse == JObj([id |-> JStr(F1)])

TagFull == JObj([id |-> S("t1"), display_value |-> S("Before")])
TagSparse == JObj([id |-> S("t2")])

CommentFull ==
    JObj([id |-> S("c1"), creator_name |-> S("Ann"), content |-> S("Looks good"),
          created_at |-> JInt(1736899200)])
CommentSparse == JObj([id |-> S("c2")])

UserFull ==
    JObj([id |-> S("u1"), first_name |-> S("Ann"), last_name |-> S("Lee"),
          email_address |-> S("ann@example.com"), status |-> S("active")])
UserSparse == JObj([id |-> S("u2"), last_name |-> S("Lee")])

\* the entities an operation's resource is made of
Entities(op) ==
    CASE op \in {"cc_search_projects", "cc_get_project", "cc_add_project_labels",
                 "cc_update_project_notepad"} -> {ProjectFull, ProjectSparse}
      [] op \in {"cc_list_project_photos", "cc_get_photo"} ->
            {PhotoFull, PhotoSparse,
             JObj([id |-> JStr(F1), description |-> JNull, captured_at |-> JNull,
                   uris |-> JNull, coordinates |-> JNull, photo_url |-> JNull])}
      [] op \in {"cc_list_project_labels", "cc_list_tags", "cc_add_photo_tags"} ->
            {TagFull, TagSparse}
      [] op \in {"cc_list_project_comments", "cc_add_project_comment",
                 "cc_add_photo_comment"} -> {CommentFull, CommentSparse}
      [] op = "cc_list_users" -> {UserFull, UserSparse}

\* the parsed bodies a 2xx response may carry: for a list resource a list of
\* 0..MaxItems entities or a full page of them; for an item resource one
\* entity; and, for both, bodies of another shape
Payloads(op, params) ==
    LET lengths == (0..MaxItems)
                     \cup (IF "per_page" \in DOMAIN params THEN {params.per_page} ELSE {})
    IN  (IF op \in PagedOps \cup {"cc_list_project_labels", "cc_add_photo_tags"}
         THEN {JList(Rep(e, n)) : e \in Entities(op), n \in lengths}
                \cup {JList(<<S("x")>>), JInt(7)}
         ELSE Entities(op) \cup {JList(<<>>)})
        \cup {JNull, JObj(EmptyDict)}

ErrorStatuses == {401, 403, 404, 429, 500}

\* the body texts of a non-2xx response: a short one and, for a status the
\* classifier quotes the body of, one over 500 characters
ErrorBodies(status) ==
    {<<"o", "o", "p", "s">>} \cup (IF status = 500 THEN {Rep("e", 501)} ELSE {})

-----------------------------------------------------------------------------
(* The remote service, as far as the client's requests change it *)

\* a successful PUT /projects/{id}/notepad replaces the notepad wholesale;
\* nothing else the client sends changes a notepad
Serve(rem, req) ==
    LET n == Len(req.url)
        id == SubSeq(req.url, 3, n - 1)
    IN  IF /\ req.method = "PUT"
           /\ n > 3
           /\ req.url[1] = BASE_URL[1] /\ req.url[2] = "/projects/" /\ req.url[n] = "/notepad"
           /\ id \in DOMAIN rem.notepad
           /\ "notepad" \in DOMAIN req.json
        THEN [rem EXCEPT !.notepad[id] = req.json.notepad]
        ELSE rem

-----------------------------------------------------------------------------
(* State *)

NoOutcome == [kind |-> "none", status |-> 0, text |-> <<>>, json |-> Ok(JNull)]

Idle ==
    [pc |-> "idle", op |-> "", raw |-> EmptyDict, params |-> EmptyDict, sent |-> <<>>,
     outcome |-> NoOutcome,
     result |-> [kind |-> "none", text |-> <<>>, errors |-> {}, fault |-> NoExc]]

NoPrev == [op |-> "", params |-> EmptyDict, confirmed |-> FALSE]

Flows == {1}

TzOffsets == {-360, 0}

Tokens == {<<>>, <<"t", "0", "k">>}

Init ==
    /\ API_TOKEN \in Tokens
    /\ tz \in TzOffsets
    /\ remote = [notepad |-> [p \in ProjectIds |-> <<"o", "l", "d">>]]
    /\ calls = [f \in Flows |-> Idle]
    /\ prev = NoPrev
    /\ fnIn = JNull
    /\ fnOut = [done |-> FALSE, out |-> Ok(<<>>)]

-----------------------------------------------------------------------------
(* Actions *)

\* a handler that tries once more when its request failed
AfterOutcomeRetry(call, outcome) ==
    IF ~Receive(outcome).ok /\ Len(call.sent) < 2
    THEN [call EXCEPT !.sent = Append(@, call.sent[1])]
    ELSE [call EXCEPT !.pc = "done", !.outcome = outcome,
                      !.result = ExceptException(Finish(call.op, call.params, outcome))]

\* a handler that reads the response off a client all invocations share: it
\* takes the response another invocation has received, when there is one
AfterOutcomeShared(call, outcome) ==
    Let({g \in DOMAIN calls : calls[g] # call /\ calls[g].outcome # NoOutcome},
        LAMBDA others :
            [call EXCEPT !.pc = "done", !.outcome = outcome,
                         !.result = ExceptException(
                            Finish(call.op, call.params,
                                   IF others # {}
                                   THEN calls[SetMin(others)].outcome
                                   ELSE outcome))])

\* the handler resumes with the outcome of its one awaited call and returns
AfterOutcome(call, outcome) ==
    [call EXCEPT !.pc = "done", !.outcome = outcome,
                 !.result = ExceptException(Finish(call.op, call.params, outcome))]

\* An invocation of operation op with the argument record raw: the arguments
\* are validated against the input model; the handler then runs up to its
\* await (a request is on the wire) or to its return.
Invoke(f, op, raw) ==
    /\ calls[f].pc = "idle"
    /\ calls' = [calls EXCEPT ![f] =
          Let(Validate(op, raw), LAMBDA errors :
            IF errors # {}
            THEN [Idle EXCEPT !.pc = "done", !.op = op, !.raw = raw,
                              !.result = Rejected(errors)]
            ELSE
            Let(Params(op, raw), LAMBDA params :
            Let(Begin(op, params, API_TOKEN, tz), LAMBDA begun :
                IF begun.ok
                THEN [Idle EXCEPT !.pc = "awaiting", !.op = op, !.raw = raw,
                                  !.params = params, !.sent = <<begun.val>>]
                ELSE [Idle EXCEPT !.pc = "done", !.op = op, !.raw = raw,
                                  !.params = params,
                                  !.result = ExceptException(begun)])))]
    /\ UNCHANGED <<API_TOKEN, tz, remote, prev, fnIn, fnOut>>

cc_search_projects(f) ==
    /\ calls[f].pc = "idle"
    /\ \E raw \in RawInputs("cc_search_projects") : Invoke(f, "cc_search_projects", raw)
cc_get_project(f) ==
    /\ calls[f].pc = "idle"
    /\ \E raw \in RawInputs("cc_get_project") : Invoke(f, "cc_get_project", raw)
cc_list_project_photos(f) ==
    /\ calls[f].pc = "idle"
    /\ \E raw \in RawInputs("cc_list_project_photos") : Invoke(f, "cc_list_project_photos", raw)
cc_get_photo(f) ==
    /\ calls[f].pc = "idle"
    /\ \E raw \in RawInputs("cc_get_photo") : Invoke(f, "cc_get_photo", raw)
cc_list_project_labels(f) ==
    /\ calls[f].pc = "idle"
    /\ \E raw \in RawInputs("cc_list_project_labels") : Invoke(f, "cc_list_project_labels", raw)
cc_list_project_comments(f) ==
    /\ calls[f].pc = "idle"
    /\ \E raw \in RawInputs("cc_list_project_comments") : Invoke(f, "cc_list_project_comments", raw)
cc_list_users(f) ==
    /\ calls[f].pc = "idle"
    /\ \E raw \in RawInputs("cc_list_users") : Invoke(f, "cc_list_users", raw)
cc_list_tags(f) ==
    /\ calls[f].pc = "idle"
    /\ \E raw \in RawInputs("cc_list_tags") : Invoke(f, "cc_list_tags", raw)
cc_add_project_comment(f) ==
    /\ calls[f].pc = "idle"
    /\ \E raw \in RawInputs("cc_add_project_comment") : Invoke(f, "cc_add_project_comment", raw)
cc_add_photo_tags(f) ==
    /\ calls[f].pc = "idle"
    /\ \E raw \in RawInputs("cc_add_photo_tags") : Invoke(f, "cc_add_photo_tags", raw)
cc_add_project_labels(f) ==
    /\ calls[f].pc = "idle"
    /\ \E raw \in RawInputs("cc_add_project_labels") : Invoke(f, "cc_add_project_labels", raw)
cc_update_project_notepad(f) ==
    /\ calls[f].pc = "idle"
    /\ \E raw \in RawInputs("cc_update_project_notepad") : Invoke(f, "cc_update_project_notepad", raw)
cc_add_photo_comment(f) ==
    /\ calls[f].pc = "idle"
    /\ \E raw \in RawInputs("cc_add_photo_comment") : Invoke(f, "cc_add_photo_comment", raw)

\* the awaited call ends with `outcome`; `applied` tells whether the service
\* carried the request out
Complete(f, outcome, applied) ==
    /\ calls[f].pc = "awaiting"
    /\ calls' = [calls EXCEPT ![f] = AfterOutcome(calls[f], outcome)]
    /\ remote' = IF applied THEN Serve(remote, calls[f].sent[Len(calls[f].sent)]) ELSE remote
    /\ UNCHANGED <<API_TOKEN, tz, prev, fnIn, fnOut>>

\* a 2xx response with a JSON body
RespondJson(f) ==
    /\ calls[f].pc = "awaiting"
    /\ \E data \in Payloads(calls[f].op, calls[f].params) :
          Complete(f, Response(200, <<"{", "}">>, Ok(data)), TRUE)

\* a 2xx response whose body is not JSON (an empty 204 body, an HTML page)
RespondUnparseable(f) ==
    /\ calls[f].pc = "awaiting"
    /\ \E status \in {200, 204} : Complete(f, Response(status, <<>>, Unparseable), TRUE)

\* a non-2xx response
RespondError(f) ==
    /\ calls[f].pc = "awaiting"
    /\ \E status \in ErrorStatuses :
          \E body \in ErrorBodies(status) :
              Complete(f, Response(status, body, Unparseable), FALSE)

\* the request timeout expires; the service may have carried the request out
Timeout(f) ==
    /\ calls[f].pc = "awaiting"
    /\ \E applied \in BOOLEAN : Complete(f, [NoOutcome EXCEPT !.kind = "timeout"], applied)

\* the connection cannot be made
ConnectFault(f) ==
    /\ calls[f].pc = "awaiting"
    /\ Complete(f, [NoOutcome EXCEPT !.kind = "connect"], FALSE)

\* the caller takes the result; the flow is free for the next invocation
Return(f) ==
    /\ calls[f].pc = "done"
    /\ prev' = IF /\ calls[f].op = "cc_update_project_notepad"
                  /\ calls[f].result.kind = "text"
                  /\ calls[f].result.fault = NoExc
               THEN [op |-> calls[f].op, params |-> calls[f].params, confirmed |-> TRUE]
               ELSE NoPrev
    /\ calls' = [calls EXCEPT ![f] = Idle]
    /\ UNCHANGED <<API_TOKEN, tz, remote, fnIn, fnOut>>

Next ==
    \E f \in Flows :
        \/ cc_search_projects(f)
        \/ cc_get_project(f)
        \/ cc_list_project_photos(f)
        \/ cc_get_photo(f)
        \/ cc_list_project_labels(f)
        \/ cc_list_project_comments(f)
        \/ cc_list_users(f)
        \/ cc_list_tags(f)
        \/ cc_add_project_comment(f)
        \/ cc_add_photo_tags(f)
        \/ cc_add_project_labels(f)
        \/ cc_update_project_notepad(f)
        \/ cc_add_photo_comment(f)
        \/ RespondJson(f)
        \/ RespondUnparseable(f)
        \/ RespondError(f)
        \/ Timeout(f)
        \/ ConnectFault(f)
        \/ Return(f)

Spec == Init /\ [][Next]_vars

-----------------------------------------------------------------------------
(* The address formatter on its own: every record over the five address   *)
(* keys, each key absent, null, "" or a text                               *)

AddressInputs ==
    LET KeyIndex(k) == CHOOSE i \in 1..5 : AddressKeys[i] = k
        AddressValue(kind, i) ==
            CASE kind = "null" -> JNull
              [] kind = "empty" -> JStr(<<>>)
              [] kind = "text" -> JStr(<<"v", Digit[i + 1]>>)
    IN  {JNull}
        \cup {JObj([k \in {AddressKeys[i] : i \in {j \in 1..5 : a[j] # "absent"}} |->
                      AddressValue(a[KeyIndex(k)], KeyIndex(k))]) :
                a \in [1..5 -> {"absent", "null", "empty", "text"}]}

InitAddress ==
    /\ API_TOKEN = <<>>
    /\ tz = 0
    /\ remote = [notepad |-> [p \in ProjectIds |-> <<"o", "l", "d">>]]
    /\ calls = [f \in Flows |-> Idle]
    /\ prev = NoPrev
    /\ fnIn \in AddressInputs
    /\ fnOut = [done |-> FALSE, out |-> Ok(<<>>)]

FormatAddress ==
    /\ ~fnOut.done
    /\ fnOut' = [done |-> TRUE, out |-> _format_address(fnIn)]
    /\ UNCHANGED <<API_TOKEN, tz, remote, calls, prev, fnIn>>

SpecAddress == InitAddress /\ [][FormatAddress]_vars

-----------------------------------------------------------------------------
(* Two flows of the event loop: invocations are in flight together and     *)
(* interleave at their awaits.  The operations are a read and a write,     *)
(* each on either project.                                                 *)

InitConcurrent ==
    /\ API_TOKEN \in Tokens
    /\ tz = 0
    /\ remote = [notepad |-> [p \in ProjectIds |-> <<"o", "l", "d">>]]
    /\ calls = [f \in {1, 2} |-> Idle]
    /\ prev = NoPrev
    /\ fnIn = JNull
    /\ fnOut = [done |-> FALSE, out |-> Ok(<<>>)]

\* the host calls a tool on flow f
StartCall(f) ==
    /\ calls[f].pc = "idle"
    /\ \E op \in {"cc_get_project", "cc_update_project_notepad"} :
          \E raw \in {Base(op), With(Base(op), "project_id", P2)} : Invoke(f, op, raw)

NextConcurrent ==
    \E f \in {1, 2} :
        \/ StartCall(f)
        \/ RespondJson(f)
        \/ RespondUnparseable(f)
        \/ RespondError(f)
        \/ Timeout(f)
        \/ ConnectFault(f)
        \/ Return(f)

SpecConcurrent == InitConcurrent /\ [][NextConcurrent]_vars

-----------------------------------------------------------------------------
(* The image URL selection on its own: every list of up to MaxItems URI    *)
(* entries (type absent or one of two sizes; url absent, null, "" or a     *)
(* text; uri absent or a text) and the list given as null, with each of    *)
(* three requested sizes                                                   *)

InitPhotoUrl ==
    LET shapes == [type : {"absent", "thumbnail", "web"},
                   url : {"absent", "null", "empty", "text"},
                   uri : {"absent", "text"}]
        value(k, kind, i) ==
            CASE kind = "null" -> JNull
              [] kind = "empty" -> JStr(<<>>)
              [] kind = "text" -> JStr(<<k, Digit[i + 1]>>)
              [] OTHER -> S(kind)
        entry(shape, i) ==
            JObj([k \in {x \in {"type", "url", "uri"} : shape[x] # "absent"} |->
                    value(k, shape[k], i)])
        lists == UNION {{[i \in 1..n |-> entry(sh[i], i)] : sh \in [1..n -> shapes]} :
                            n \in 0..MaxItems}
    IN  /\ API_TOKEN = <<>>
        /\ tz = 0
        /\ remote = [notepad |-> [p \in ProjectIds |-> <<"o", "l", "d">>]]
        /\ calls = [f \in Flows |-> Idle]
        /\ prev = NoPrev
        /\ fnIn \in {[uris |-> u, size |-> <<z>>] :
                        u \in {JNull} \cup {JList(l) : l \in lists},
                        z \in {"web", "thumbnail", "original"}}
        /\ fnOut = [done |-> FALSE, out |-> Ok(<<>>)]

GetPhotoUrl ==
    /\ ~fnOut.done
    /\ fnOut' = [done |-> TRUE, out |-> _get_photo_url(fnIn.uris, fnIn.size)]
    /\ UNCHANGED <<API_TOKEN, tz, remote, calls, prev, fnIn>>

SpecPhotoUrl == InitPhotoUrl /\ [][GetPhotoUrl]_vars

-----------------------------------------------------------------------------
(* Properties *)

\* the handler of call c has returned (its arguments passed the input model)
Returned(c) == c.pc = "done" /\ c.result.kind # "rejected"

\* the handler returned its regular text, no exception on the way
Succeeded(c) == Returned(c) /\ c.result.kind = "text" /\ c.result.fault = NoExc

\* a date filter of the validated record that is given and does not parse
BadDate(params, f) ==
    Opt(params, f) # <<>> /\ ~fromisoformat(ReplaceZ(Opt(params, f))).ok

DatesParse(params) == ~BadDate(params, "start_date") /\ ~BadDate(params, "end_date")

\* the text the missing credential ends in
NoTokenText == <<"Error: ">> \o MsgNoToken

\* C1: with no credential configured no invocation issues a request, and every
\* one of the 13 operations, invoked with arguments that pass its parameter
\* rules (date filters that parse included), returns the credential message.
C1_NoCredentialNoRequest ==
    API_TOKEN = <<>> =>
        \A f \in Flows :
            /\ calls[f].sent = <<>>
            /\ calls[f].pc # "awaiting"
            /\ (Returned(calls[f]) /\ DatesParse(calls[f].params))
                  => calls[f].result.text = NoTokenText

C1_Witness ==
    /\ API_TOKEN = <<>>
    /\ \E f \in Flows :
          /\ Returned(calls[f])
          /\ calls[f].op = "cc_add_photo_comment"
          /\ calls[f].result.text = NoTokenText
          /\ calls[f].sent = <<>>

\* the first chunk of every text the classifier returns
ErrorLeads ==
    {"Error: ", "Error: API returned ", MsgAuthFailed[1], MsgPermission[1],
     MsgNotFound[1], MsgRateLimit[1], MsgTimeout[1]}

IsErrorText(t) == t # <<>> /\ t[1] \in ErrorLeads

\* the awaited call of c ended in a failure of the transport or of the parse
TransportFailed(c) ==
    \/ c.outcome.kind \in {"timeout", "connect"}
    \/ c.outcome.kind = "response"
         /\ (c.outcome.status \notin 200..299 \/ ~c.outcome.json.ok)

\* C2: an invocation whose handler was entered ends with a text result and
\* never with an exception at the caller; a failure of the transport, of the
\* parameter conversion or of the projection ends in a classified error text.
C2_AlwaysReturnsText ==
    \A f \in Flows :
        Returned(calls[f]) =>
            /\ calls[f].result.kind = "text"
            /\ calls[f].result.text # <<>>
            /\ TransportFailed(calls[f]) => IsErrorText(calls[f].result.text)
            /\ ~DatesParse(calls[f].params) => IsErrorText(calls[f].result.text)
            /\ calls[f].result.fault # NoExc => IsErrorText(calls[f].result.text)

C2_Witness ==
    \E f \in Flows :
        /\ Returned(calls[f])
        /\ calls[f].outcome.kind = "response" /\ calls[f].outcome.status = 200
        /\ calls[f].result.fault.type = "AttributeError"
        /\ calls[f].result.kind = "text"

\* the message of a non-2xx status
StatusText(status, body) ==
    CASE status = 401 -> MsgAuthFailed
      [] status = 403 -> MsgPermission
      [] status = 404 -> MsgNotFound
      [] status = 429 -> MsgRateLimit
      [] OTHER -> <<"Error: API returned ">> \o IntToStr(status)
                      \o <<". Response: ">>
                      \o (IF Len(body) > 500 THEN SubSeq(body, 1, 500) ELSE body)

\* the failed call c ended with a non-2xx status or a timeout
StatusOrTimeout(c) ==
    \/ c.outcome.kind = "timeout"
    \/ c.outcome.kind = "response" /\ c.outcome.status \notin 200..299

\* the message of a non-2xx status or a timeout, as the table has it
TableText(c) ==
    IF c.outcome.kind = "timeout" THEN MsgTimeout
    ELSE StatusText(c.outcome.status, c.outcome.text)

\* "<fault kind>: <fault detail>"
KindAndDetail(e) == <<"Error: ", e.type, ": ">> \o e.detail

\* C3 (as amended): a failed invocation returns the one message of its cause:
\* the four fixed messages for 401, 403, 404 and 429, "API returned <status>.
\* Response: <first 500 characters of the body>" for any other non-2xx status,
\* the timeout message for a timeout, "Error: <detail>" without the fault
\* kind for a ValueError (missing credential, date that does not parse, 2xx
\* body that is no JSON), and "Error: <fault kind>: <detail>" for the rest.
C3_ClassifierTable ==
    \A f \in Flows :
        (Returned(calls[f]) /\ calls[f].result.fault # NoExc) =>
            IF StatusOrTimeout(calls[f])
            THEN calls[f].result.text = TableText(calls[f])
            ELSE IF calls[f].result.fault.type \in {"ValueError", "JSONDecodeError"}
            THEN calls[f].result.text = <<"Error: ">> \o calls[f].result.fault.detail
            ELSE calls[f].result.text = KindAndDetail(calls[f].result.fault)

C3_Witness ==
    \E f \in Flows :
        /\ Returned(calls[f])
        /\ calls[f].op = "cc_get_project"
        /\ calls[f].outcome.kind = "response" /\ calls[f].outcome.status = 404
        /\ calls[f].result.text = MsgNotFound

\* C3 as stated: every fault that is neither a non-2xx status nor a timeout
\* (the missing credential, which has its own message, left aside) yields
\* "<fault kind>: <fault detail>".
C3_AsStated ==
    \A f \in Flows :
        (Returned(calls[f]) /\ calls[f].result.fault # NoExc) =>
            IF StatusOrTimeout(calls[f])
            THEN calls[f].result.text = TableText(calls[f])
            ELSE calls[f].result.fault.detail # MsgNoToken
                    => calls[f].result.text = KindAndDetail(calls[f].result.fault)

\* C4: an invocation issues at most one request; once its request has an
\* outcome, a failure included, the handler has returned with that one
\* request on record and no further one.
C4_NoRetry ==
    \A f \in Flows :
        /\ Len(calls[f].sent) <= 1
        /\ calls[f].pc = "awaiting" => Len(calls[f].sent) = 1 /\ calls[f].outcome = NoOutcome
        /\ calls[f].outcome # NoOutcome => calls[f].pc = "done" /\ Len(calls[f].sent) = 1

C4_Witness ==
    \E f \in Flows :
        /\ calls[f].pc = "done"
        /\ calls[f].outcome.kind = "response" /\ calls[f].outcome.status = 500
        /\ Len(calls[f].sent) = 1
        /\ IsErrorText(calls[f].result.text)

\* the "more results" line is in text t
HasMoreHint(t) ==
    \E i \in 1..Len(t) :
        t[i] \in {"_More results may be available on page ",
                  "_More photos may be available on page "}

\* C5: for each of the five list operations and per_page = P, a returned list
\* of length P puts the "more results" hint in the result, a shorter list
\* does not.
C5_MoreHint ==
    \A f \in Flows :
        (/\ calls[f].op \in PagedOps
         /\ Succeeded(calls[f])
         /\ calls[f].outcome.json.val.t = "list") =>
            (HasMoreHint(calls[f].result.text)
                <=> Len(calls[f].outcome.json.val.v) = calls[f].params.per_page)

\* the kinds of violation the input model reports
Reasons ==
    {"extra_forbidden", "missing", "string_too_short", "string_too_long",
     "greater_than_equal", "less_than_equal", "too_short"}

\* the validated record p obeys the length and range rules of the fields it has
WithinRules(p) ==
    /\ "query" \in DOMAIN p => Len(p.query) \in 1..200
    /\ "project_id" \in DOMAIN p => Len(p.project_id) >= 1
    /\ "photo_id" \in DOMAIN p => Len(p.photo_id) >= 1
    /\ "content" \in DOMAIN p => Len(p.content) \in 1..5000
    /\ "notepad" \in DOMAIN p => Len(p.notepad) <= 10000
    /\ "tags" \in DOMAIN p => Len(p.tags) >= 1
    /\ "labels" \in DOMAIN p => Len(p.labels) >= 1
    /\ "page" \in DOMAIN p => p.page >= 1
    /\ "per_page" \in DOMAIN p => p.per_page \in 1..100

\* the argument record raw has the fields of op's input model: none unknown,
\* none of the required ones missing
FieldsFit(op, raw) ==
    /\ DOMAIN raw \subseteq DOMAIN Schema(op)
    /\ DOMAIN Base(op) \subseteq DOMAIN raw

\* the result of c names field fld
NamesField(c, fld) ==
    \/ c.result.kind = "rejected" /\ \E e \in c.result.errors : e.field = fld
    \/ c.result.kind = "text" /\ HasChunk(c.result.text, fld)

\* the part of C6 on the input model: a rejected invocation names a field and
\* a reason and has issued no request, and a request is only ever issued for
\* arguments within the rules
SchemaBeforeNetwork(c) ==
    /\ c.result.kind = "rejected" =>
          /\ c.sent = <<>> /\ c.outcome = NoOutcome
          /\ c.result.errors # {}
          /\ \A e \in c.result.errors :
                e.field \in DOMAIN c.raw \cup DOMAIN Schema(c.op) /\ e.reason \in Reasons
    /\ (c.pc # "idle" /\ ~FieldsFit(c.op, c.raw)) => c.result.kind = "rejected"
    /\ c.sent # <<>> => FieldsFit(c.op, c.raw) /\ WithinRules(c.params)

\* C6 (as amended): a violation of the input model (unknown field, missing
\* required field, string length, page or per_page out of range) is rejected
\* with the field and the reason and no request is issued; a start_date or
\* end_date that is not empty after trimming and does not parse issues no
\* request either, and the result is "Error: <the parser's message>", which
\* gives the reason and not the field.
C6_ValidationBeforeNetwork ==
    \A f \in Flows :
        /\ SchemaBeforeNetwork(calls[f])
        /\ calls[f].sent # <<>> => DatesParse(calls[f].params)
        /\ (Returned(calls[f]) /\ ~DatesParse(calls[f].params)) =>
              /\ calls[f].result.fault.type = "ValueError"
              /\ calls[f].result.text = <<"Error: ">> \o calls[f].result.fault.detail

C6_Witness ==
    \E f \in Flows :
        /\ calls[f].pc = "done"
        /\ calls[f].op = "cc_search_projects"
        /\ "query" \in DOMAIN calls[f].raw /\ Len(calls[f].raw.query) = 201
        /\ calls[f].result.kind = "rejected"
        /\ [field |-> "query", reason |-> "string_too_long"] \in calls[f].result.errors
        /\ calls[f].sent = <<>>

\* C6 as stated: a date filter that does not parse fails, like a violation
\* of the input model, with an error that names the field, and issues no
\* request.
C6_AsStated ==
    \A f \in Flows :
        /\ SchemaBeforeNetwork(calls[f])
        /\ calls[f].sent # <<>> => DatesParse(calls[f].params)
        /\ \A fld \in {"start_date", "end_date"} :
              (/\ Returned(calls[f])
               /\ BadDate(calls[f].params, fld)
               /\ \A other \in {"start_date", "end_date"} \ {fld} :
                     ~BadDate(calls[f].params, other))
                  => NamesField(calls[f], fld)

\* the argument record raw is op's base record with valid pagination fields
BaseWithPagination(op, raw) ==
    /\ DOMAIN raw \subseteq DOMAIN Base(op) \cup {"page", "per_page"}
    /\ DOMAIN Base(op) \subseteq DOMAIN raw
    /\ \A k \in DOMAIN Base(op) : raw[k] = Base(op)[k]
    /\ "page" \in DOMAIN raw => raw.page >= 1

\* the pagination rules of call c of a paginated operation
PaginationBounds(c) ==
    /\ ("per_page" \in DOMAIN c.raw /\ c.raw.per_page \in {0, 101}) =>
          /\ c.result.kind = "rejected"
          /\ \E e \in c.result.errors : e.field = "per_page"
          /\ c.sent = <<>>
    /\ (/\ "per_page" \in DOMAIN c.raw /\ c.raw.per_page \in {1, 100}
        /\ BaseWithPagination(c.op, c.raw)) => c.result.kind # "rejected"
    /\ c.sent # <<>> =>
          /\ {"page", "per_page"} \subseteq DOMAIN c.sent[1].params
          /\ c.sent[1].params.page >= 1
          /\ c.sent[1].params.per_page \in 1..100

\* C7 (as amended): for the five paginated list operations validation rejects
\* per_page 0 and 101, accepts 1 and 100, and every query sent carries a
\* page >= 1 and a per_page in 1..100; list project labels has no pagination
\* fields: it rejects any per_page as an unknown field and its query carries
\* neither page nor per_page.
C7_PaginationBounds ==
    \A f \in Flows :
        /\ (calls[f].pc # "idle" /\ calls[f].op \in PagedOps) => PaginationBounds(calls[f])
        /\ (calls[f].pc # "idle" /\ calls[f].op = "cc_list_project_labels") =>
              /\ "per_page" \in DOMAIN calls[f].raw =>
                    /\ calls[f].result.kind = "rejected"
                    /\ [field |-> "per_page", reason |-> "extra_forbidden"]
                          \in calls[f].result.errors
              /\ calls[f].sent # <<>> => calls[f].sent[1].params = EmptyDict

C7_Witness ==
    \E f \in Flows :
        /\ calls[f].op = "cc_list_tags"
        /\ "per_page" \in DOMAIN calls[f].raw /\ calls[f].raw.per_page = 100
        /\ calls[f].sent # <<>>
        /\ calls[f].sent[1].params.per_page = 100

\* C7 as stated: the pagination rules hold of every list operation, list
\* project labels included.
C7_AsStated ==
    \A f \in Flows :
        (calls[f].pc # "idle" /\ calls[f].op \in PagedOps \cup {"cc_list_project_labels"})
            => PaginationBounds(calls[f])

FullContentPut(c) ==
    /\ Len(c.sent) = 1
    /\ c.sent[1].method = "PUT"
    /\ c.sent[1].url = BASE_URL \o <<"/projects/">> \o c.params.project_id \o <<"/notepad">>
    /\ c.sent[1].json = [notepad |-> c.params.notepad]

\* C9: a notepad call sends exactly one PUT carrying the full content; after
\* a call that succeeded the remote notepad of the project equals the
\* content, after the first call and after a second call with the same
\* content alike.
C9_NotepadIdempotent ==
    \A f \in Flows :
        /\ (calls[f].op = "cc_update_project_notepad" /\ calls[f].sent # <<>>)
              => FullContentPut(calls[f])
        /\ (/\ calls[f].op = "cc_update_project_notepad"
            /\ Succeeded(calls[f])
            /\ calls[f].params.project_id \in ProjectIds)
              => remote.notepad[calls[f].params.project_id] = calls[f].params.notepad
        /\ (/\ prev.confirmed
            /\ prev.params.project_id \in ProjectIds
            /\ \/ calls[f].pc = "idle"
               \/ Succeeded(calls[f]) /\ calls[f].op = prev.op /\ calls[f].params = prev.params)
              => remote.notepad[prev.params.project_id] = prev.params.notepad

C9_Witness ==
    \E f \in Flows :
        /\ prev.confirmed
        /\ calls[f].op = "cc_update_project_notepad"
        /\ Succeeded(calls[f])
        /\ calls[f].params = prev.params
        /\ Len(calls[f].params.notepad) = 10000
        /\ remote.notepad[calls[f].params.project_id] = calls[f].params.notepad

\* the fields of address record addr that hold a non-empty text, in the
\* fixed order
NonEmptyFields(addr) ==
    IF addr.t # "obj" THEN <<>>
    ELSE LET held(i) == /\ AddressKeys[i] \in DOMAIN addr.v
                        /\ addr.v[AddressKeys[i]].t = "str"
                        /\ addr.v[AddressKeys[i]].v # <<>>
             idx == SelectSeq(<<1, 2, 3, 4, 5>>, held)
         IN  [i \in 1..Len(idx) |-> addr.v[AddressKeys[idx[i]]].v]

\* C10: an address whose fields are all empty or missing formats to the
\* "No address" token, never to the empty string; any other address formats
\* to its non-empty fields, in the fixed order, joined with ", ".
C10_NoAddressToken ==
    fnOut.done =>
        /\ fnOut.out.ok
        /\ fnOut.out.val # <<>>
        /\ fnOut.out.val = IF NonEmptyFields(fnIn) = <<>>
                           THEN <<"No address">>
                           ELSE Join(<<", ">>, NonEmptyFields(fnIn))

\* the entry the selection settles on: the first one of the requested size,
\* or the first of the list
ChosenEntry(uris, size) ==
    LET matches == {i \in 1..Len(uris) :
                        "type" \in DOMAIN uris[i].v /\ uris[i].v.type = JStr(size)}
    IN  IF matches # {} THEN uris[SetMin(matches)] ELSE uris[1]

\* the image URL selection answers `out` for fnIn, the address of an entry
\* being Address(entry)
SelectsBy(Address(_)) ==
    fnOut.done =>
        /\ fnOut.out.ok
        /\ IF ~Truthy(fnIn.uris)
           THEN fnOut.out.val = JStr(<<"No URL available">>)
           ELSE \A a \in Address(ChosenEntry(fnIn.uris.v, fnIn.size)) :
                    fnOut.out.val = a

\* the address of entry e, the first non-empty of url and uri winning; the
\* empty text when neither key holds one
FirstNonEmpty(e) ==
    {IF "url" \in DOMAIN e.v /\ e.v.url \notin {JNull, JStr(<<>>)} THEN e.v.url
     ELSE IF "uri" \in DOMAIN e.v THEN e.v.uri
     ELSE JStr(<<>>)}

\* the address of entry e, the first present of url and uri winning (no
\* address is named for an entry that has neither)
FirstPresent(e) ==
    IF "url" \in DOMAIN e.v THEN {e.v.url}
    ELSE IF "uri" \in DOMAIN e.v THEN {e.v.uri}
    ELSE {}

\* C11 (as amended): the image URL selection returns the address of the first
\* entry whose type equals the requested size, of the first entry of the list
\* if none matches, and the "No URL available" token for an empty list; the
\* address of an entry is its url if that is present and not empty or null,
\* else its uri, else the empty text.
C11_PhotoUrlSelection == SelectsBy(FirstNonEmpty)

C11_Witness ==
    /\ fnOut.done
    /\ fnIn.size = <<"web">>
    /\ fnIn.uris.t = "list" /\ Len(fnIn.uris.v) = 2
    /\ fnIn.uris.v[1] = JObj([type |-> S("thumbnail"), url |-> JStr(<<"url", "1">>)])
    /\ fnIn.uris.v[2] = JObj([type |-> S("web"), uri |-> JStr(<<"uri", "2">>)])
    /\ fnOut.out = Ok(JStr(<<"uri", "2">>))

\* C11 as stated: the address of an entry is that of the first of the keys
\* url and uri that is present.
C11_AsStated == SelectsBy(FirstPresent)

\* the record of call c is what its own arguments, the credential and its own
\* response make it: the request is the one its arguments build, the result
\* the one its handler computes from the outcome of that request
OwnInputOwnResponse(c) ==
    /\ c.params = Params(c.op, c.raw)
    /\ IF Begin(c.op, c.params, API_TOKEN, tz).ok
       THEN /\ c.sent = <<Begin(c.op, c.params, API_TOKEN, tz).val>>
            /\ c.pc = "awaiting" => c.outcome = NoOutcome /\ c.result = Idle.result
            /\ c.pc = "done" =>
                  /\ c.outcome # NoOutcome
                  /\ c.result = ExceptException(Finish(c.op, c.params, c.outcome))
       ELSE /\ c.sent = <<>> /\ c.pc = "done" /\ c.outcome = NoOutcome
            /\ c.result = ExceptException(Begin(c.op, c.params, API_TOKEN, tz))

\* C12: with two invocations in flight and interleaved at their awaits in
\* any way, the request and the result of each are those of its own arguments
\* and its own response, whatever the other invocation does; and no step
\* writes the credential.
C12_NoInterference ==
    /\ [](\A f \in DOMAIN calls : calls[f].pc # "idle" => OwnInputOwnResponse(calls[f]))
    /\ [][API_TOKEN' = API_TOKEN]_vars

C12_Witness ==
    /\ calls[1].op = "cc_get_project" /\ calls[1].params.project_id = P1
    /\ calls[1].outcome.kind = "response" /\ calls[1].outcome.status = 404
    /\ calls[1].result.text = MsgNotFound
    /\ calls[2].op = "cc_update_project_notepad" /\ calls[2].params.project_id = P2
    /\ Succeeded(calls[2])
    /\ remote.notepad[P2] = <<"n">>

\* the operations annotated read-only
ReadOps ==
    {"cc_search_projects", "cc_get_project", "cc_list_project_photos", "cc_get_photo",
     "cc_list_project_labels", "cc_list_project_comments", "cc_list_users", "cc_list_tags"}

\* the parsed body is what op's resource returns: one record, or a list of
\* records, whose optional fields may be missing or null
RecordsOf(op, data) ==
    IF op \in {"cc_get_project", "cc_get_photo"}
    THEN data \in Entities(op)
    ELSE data.t = "list" /\ \A i \in 1..Len(data.v) : data.v[i] \in Entities(op)

\* C13: a read operation whose request was answered with the records of its
\* resource, optional fields missing or null, returns its formatted text:
\* no exception is raised on the way and the result is no error text.
C13_ProjectionNeverRaises ==
    \A f \in Flows :
        (/\ Returned(calls[f])
         /\ calls[f].op \in ReadOps
         /\ calls[f].outcome.kind = "response"
         /\ calls[f].outcome.status = 200
         /\ calls[f].outcome.json.ok
         /\ RecordsOf(calls[f].op, calls[f].outcome.json.val)) =>
            /\ calls[f].result.kind = "text"
            /\ calls[f].result.fault = NoExc
            /\ ~IsErrorText(calls[f].result.text)

\* text t ends with suf; sub occurs in t
EndsWith(t, suf) ==
    Len(t) >= Len(suf) /\ SubSeq(t, Len(t) - Len(suf) + 1, Len(t)) = suf
Contains(t, sub) ==
    \E i \in 1..(Len(t) - Len(sub) + 1) : SubSeq(t, i, i + Len(sub) - 1) = sub

\* the first chunk of each confirmation of the four POST operations
ConfirmationLeads ==
    [cc_add_project_comment |-> "Comment added to project ",
     cc_add_photo_comment |-> "Comment added to photo ",
     cc_add_photo_tags |-> "Tags added to photo ",
     cc_add_project_labels |-> "Labels added to project "]

\* call c ended with the confirmation of its operation
Confirmed(c) ==
    /\ c.pc = "done" /\ c.op \in DOMAIN ConfirmationLeads
    /\ c.result.kind = "text" /\ c.result.text # <<>>
    /\ c.result.text[1] = ConfirmationLeads[c.op]

\* the text of field k of the record the service returned, or the placeholder
Echoed(data, k, placeholder) ==
    IF data.t = "obj" /\ k \in DOMAIN data.v /\ data.v[k].t = "str"
    THEN data.v[k].v ELSE placeholder

\* the one request of c is a POST that the service answered 2xx with JSON
PostSucceeded(c) ==
    /\ Len(c.sent) = 1 /\ c.sent[1].method = "POST"
    /\ c.outcome.kind = "response" /\ c.outcome.status \in 200..299
    /\ c.outcome.json.ok

\* what the confirmation of c says of the effect
EchoesEffect(c, data) ==
    CASE c.op \in {"cc_add_project_comment", "cc_add_photo_comment"} ->
            /\ data.t = "obj"
            /\ Contains(c.result.text,
                        <<" by ">> \o Echoed(data, "creator_name", <<"Unknown">>))
            /\ EndsWith(c.result.text,
                        <<":\n\"">> \o Echoed(data, "content", <<>>) \o <<"\"">>)
      [] c.op = "cc_add_photo_tags" ->
            EndsWith(c.result.text,
                     <<": ">> \o
                     (IF data.t = "list" /\ data.v # <<>>
                      THEN Join(<<", ">>, [i \in 1..Len(data.v) |->
                                              Echoed(data.v[i], "display_value", <<"?">>)])
                      ELSE Join(<<", ">>, c.params.tags)))
      [] c.op = "cc_add_project_labels" ->
            EndsWith(c.result.text, <<": ">> \o Join(<<", ">>, c.params.labels))

\* C14: a confirmation of add project comment, add photo comment, add photo
\* tags or add project labels is returned only after the one POST of the call
\* was answered 2xx; the comment confirmations carry the author and the
\* content the service returned, the tags confirmation the display values
\* the service returned when it returned a non-empty list and the tags of
\* the request otherwise, the labels confirmation the labels of the request.
C14_ConfirmationEchoesEffect ==
    \A f \in Flows :
        /\ Confirmed(calls[f]) =>
              /\ PostSucceeded(calls[f])
              /\ EchoesEffect(calls[f], calls[f].outcome.json.val)
        /\ (calls[f].pc = "done" /\ calls[f].op \in DOMAIN ConfirmationLeads
                /\ calls[f].sent # <<>> /\ ~PostSucceeded(calls[f]))
              => IsErrorText(calls[f].result.text)

C14_Witness ==
    \E f \in Flows :
        /\ calls[f].op = "cc_add_photo_tags"
        /\ Confirmed(calls[f])
        /\ calls[f].params.tags = << <<"A">> >>
        /\ calls[f].outcome.json.val = JList(<<TagFull, TagFull>>)
        /\ calls[f].result.text =
              <<"Tags added to photo ", "f", "1", ": ", "Before", ", ", "Before">>

\* the method and the path of the one request of a write operation
WriteRequest(op, params) ==
    CASE op = "cc_add_project_comment" ->
            [method |-> "POST", path |-> <<"/projects/">> \o params.project_id \o <<"/comments">>]
      [] op = "cc_add_photo_comment" ->
            [method |-> "POST", path |-> <<"/photos/">> \o params.photo_id \o <<"/comments">>]
      [] op = "cc_add_photo_tags" ->
            [method |-> "POST", path |-> <<"/photos/">> \o params.photo_id \o <<"/tags">>]
      [] op = "cc_add_project_labels" ->
            [method |-> "POST", path |-> <<"/projects/">> \o params.project_id \o <<"/labels">>]
      [] op = "cc_update_project_notepad" ->
            [method |-> "PUT", path |-> <<"/projects/">> \o params.project_id \o <<"/notepad">>]

\* the requests call c has issued are those its operation may issue
MethodDiscipline(c) ==
    IF c.op \in ReadOps
    THEN \A i \in 1..Len(c.sent) : c.sent[i].method = "GET"
    ELSE /\ Len(c.sent) <= 1
         /\ (c.pc = "awaiting" \/ c.outcome # NoOutcome) => Len(c.sent) = 1
         /\ \A i \in 1..Len(c.sent) :
               /\ c.sent[i].method = WriteRequest(c.op, c.params).method
               /\ c.sent[i].url = BASE_URL \o WriteRequest(c.op, c.params).path

\* a step changes the remote state only if it ends a notepad call, and then
\* only the notepad of the project the call names
RemoteFrame ==
    remote' # remote =>
        \E f \in Flows :
            /\ calls[f].op = "cc_update_project_notepad"
            /\ calls[f].pc = "awaiting"
            /\ \A p \in ProjectIds \ {calls[f].params.project_id} :
                  remote'.notepad[p] = remote.notepad[p]

\* C15: over any sequence of invocations a read-only operation issues GET
\* requests only and the step that ends it leaves the remote state as it
\* was; a write operation that reaches the network issues exactly one
\* request, a POST (a PUT for the notepad) to the path of its own id, and
\* nothing but the notepad of that project is changed.
C15_MethodDiscipline ==
    /\ [](\A f \in Flows : calls[f].pc # "idle" => MethodDiscipline(calls[f]))
    /\ [][RemoteFrame]_vars

C15_Witness ==
    \E f \in Flows :
        /\ calls[f].op = "cc_add_project_labels"
        /\ Succeeded(calls[f])
        /\ Len(calls[f].sent) = 1
        /\ calls[f].sent[1].method = "POST"
        /\ calls[f].sent[1].url = BASE_URL \o <<"/projects/", "p", "2", "/labels">>
        /\ prev.confirmed
        /\ remote.notepad[prev.params.project_id] = prev.params.notepad

====
